---- MODULE Spec2Model ----
(***************************************************************************)
(* The schedule-specification builder of brahma: the Schedule entity of    *)
(* src/types.rs with its chained setters, the calendar check of            *)
(* src/time.rs, the convenience compositions of src/lib.rs and the         *)
(* type-state ScheduleBuilder of src/builder.rs.                           *)
(*                                                                         *)
(* An Option<T> is a sequence of length at most one: None is <<>> and      *)
(* Some(v) is <<v>>.  A Month is its variant name; the cast `m as u8` is   *)
(* the variant's discriminant, which Rust numbers from 0 in declaration    *)
(* order.                                                                  *)
(***************************************************************************)
EXTENDS Integers, Sequences, FiniteSets, TLC

VARIABLES sched, last, firstRepeat, builder, called, built

vars == <<sched, last, firstRepeat, builder, called, built>>

\* ------------------------------------------------------------------------
\* Option<T>
None == <<>>
Some(v) == <<v>>
is_none(o) == o = None
is_some(o) == o # None
unwrap(o) == o[1]

\* ------------------------------------------------------------------------
\* Domain vocabulary (src/types.rs)
Month == <<"JAN", "FEB", "MAR", "APR", "MAY", "JUN",
           "JULY", "AUG", "SEPT", "OCT", "NOV", "DEC">>

Months == {Month[i] : i \in 1..Len(Month)}

\* `m as u8`: the discriminant of the variant, JAN = 0 ... DEC = 11.
MonthAsU8(m) == (CHOOSE i \in 1..Len(Month) : Month[i] = m) - 1

Frequency == {"Hourly", "Daily", "Weekly", "Monthly"}

Days == {"SUN", "MON", "TUE", "WED", "THUR", "FRI", "SAT"}

FrequencyPattern_Frequency(f) == [tag |-> "Frequency", f |-> f]
FrequencyPattern_ByDay(n, d) == [tag |-> "ByDay", n |-> n, day |-> d]

Except_Day(d) == [tag |-> "Day", day |-> d]
Except_N(n) == [tag |-> "N", n |-> n]
Except_NDay(n, d) == [tag |-> "NDay", n |-> n, day |-> d]
Except_MONTH(m) == [tag |-> "MONTH", month |-> m]

Time(h, m) == [hour |-> h, minute |-> m]

Until(total, d, m, h, min) ==
    [total |-> total, day |-> d, month |-> m, hr |-> h, minute |-> min]

\* ------------------------------------------------------------------------
\* src/time.rs
is_valid_day_for_month(month, day) ==
    CASE month \in {1, 3, 5, 7, 8, 10, 12} -> day <= 31
      [] month \in {4, 6, 9, 11} -> day <= 30
      [] month = 2 -> day <= 29
      [] OTHER -> FALSE

\* ------------------------------------------------------------------------
\* Schedule (src/types.rs)
Schedule_new ==
    [recurring |-> [frequency |-> None, except |-> None],
     year |-> None, day |-> None, month |-> None, hour |-> None,
     minute |-> None, repeat |-> None, range |-> None]

year(self, y) ==
    IF is_none(self.year) THEN [self EXCEPT !.year = Some(y)] ELSE self

\* day with its lower bound off by one: 0 is taken for a day.
day_from_zero(self, d) ==
    IF d >= 0 /\ d <= 31
    THEN IF is_some(self.month)
            /\ ~is_valid_day_for_month(MonthAsU8(unwrap(self.month)), d)
         THEN self
         ELSE IF is_none(self.day) THEN [self EXCEPT !.day = Some(d)]
              ELSE self
    ELSE self

day(self, d) ==
    IF d >= 1 /\ d <= 31
    THEN IF is_some(self.month)
            /\ ~is_valid_day_for_month(MonthAsU8(unwrap(self.month)), d)
         THEN self
         ELSE IF is_none(self.day) THEN [self EXCEPT !.day = Some(d)]
              ELSE self
    ELSE self

\* month that resolves a mismatch by dropping the day it conflicts with.
month_clears_day(self, m) ==
    IF is_some(self.day)
       /\ ~is_valid_day_for_month(MonthAsU8(m), unwrap(self.day))
    THEN [self EXCEPT !.day = None]
    ELSE IF is_none(self.month) THEN [self EXCEPT !.month = Some(m)]
         ELSE self

month(self, m) ==
    IF is_some(self.day)
       /\ ~is_valid_day_for_month(MonthAsU8(m), unwrap(self.day))
    THEN self
    ELSE IF is_none(self.month) THEN [self EXCEPT !.month = Some(m)]
         ELSE self

\* hour without the already-set test: a later valid call overwrites.
hour_overwrite(self, h) ==
    IF h < 24 THEN [self EXCEPT !.hour = Some(h)] ELSE self

hour(self, h) ==
    IF is_some(self.hour) THEN self
    ELSE IF h < 24 THEN [self EXCEPT !.hour = Some(h)]
         ELSE self

\* minute that is kept only beside an hour: a time needs its hour first.
minute_needs_hour(self, m) ==
    IF is_some(self.minute) THEN self
    ELSE IF m < 60 /\ is_some(self.hour) THEN [self EXCEPT !.minute = Some(m)]
         ELSE self

minute(self, m) ==
    IF is_some(self.minute) THEN self
    ELSE IF m < 60 THEN [self EXCEPT !.minute = Some(m)]
         ELSE self

\* every without the already-set test: the last call wins.
every_overwrite(self, f) == [self EXCEPT !.recurring.frequency = Some(f)]

every(self, f) ==
    IF is_none(self.recurring.frequency)
    THEN [self EXCEPT !.recurring.frequency = Some(f)]
    ELSE self

except(self, e) ==
    IF is_none(self.recurring.except)
    THEN [self EXCEPT !.recurring.except = Some(e)]
    ELSE self

\* repeat without the already-set test: a later call resets the record.
repeat_overwrite(self, n) ==
    [self EXCEPT !.repeat = Some(Until(n, None, None, None, None))]

repeat(self, n) ==
    IF is_none(self.repeat)
    THEN [self EXCEPT !.repeat = Some(Until(n, None, None, None, None))]
    ELSE self

\* until that creates the record when repeat was never called.
until_creates(self, d, m, h, min) ==
    IF is_none(self.repeat)
    THEN [self EXCEPT !.repeat = Some(Until(0, d, m, h, min))]
    ELSE [self EXCEPT !.repeat = Some(Until(unwrap(self.repeat).total, d, m, h, min))]

\* until that merges: a None argument keeps what an earlier until stored.
until_merge(self, d, m, h, min) ==
    IF is_none(self.repeat) THEN self
    ELSE LET r == unwrap(self.repeat)
         IN  [self EXCEPT !.repeat =
                 Some(Until(r.total,
                            IF is_none(d) THEN r.day ELSE d,
                            IF is_none(m) THEN r.month ELSE m,
                            IF is_none(h) THEN r.hr ELSE h,
                            IF is_none(min) THEN r.minute ELSE min))]

until(self, d, m, h, min) ==
    IF is_none(self.repeat) THEN self
    ELSE [self EXCEPT !.repeat = Some(Until(unwrap(self.repeat).total, d, m, h, min))]

\* between that validates the order: a window whose start is after its end
\* is rejected.
between_ordered(self, start, end) ==
    IF is_none(self.range)
       /\ (start[1] < end[1] \/ (start[1] = end[1] /\ start[2] <= end[2]))
    THEN [self EXCEPT !.range = Some(<<Time(start[1], start[2]), Time(end[1], end[2])>>)]
    ELSE self

between(self, start, end) ==
    IF is_none(self.range)
    THEN [self EXCEPT !.range = Some(<<Time(start[1], start[2]), Time(end[1], end[2])>>)]
    ELSE self

\* The branches of each setter that end in eprintln!: the call is rejected
\* with a diagnostic.
year_rejected(self, y) == is_some(self.year)

day_rejected(self, d) ==
    IF d >= 1 /\ d <= 31
    THEN IF is_some(self.month)
            /\ ~is_valid_day_for_month(MonthAsU8(unwrap(self.month)), d)
         THEN TRUE
         ELSE ~is_none(self.day)
    ELSE TRUE

month_rejected(self, m) ==
    IF is_some(self.day)
       /\ ~is_valid_day_for_month(MonthAsU8(m), unwrap(self.day))
    THEN TRUE
    ELSE ~is_none(self.month)

hour_rejected(self, h) == IF is_some(self.hour) THEN TRUE ELSE ~(h < 24)

minute_rejected(self, m) == IF is_some(self.minute) THEN TRUE ELSE ~(m < 60)

every_rejected(self, f) == ~is_none(self.recurring.frequency)

except_rejected(self, e) == ~is_none(self.recurring.except)

repeat_rejected(self, n) == ~is_none(self.repeat)

until_rejected(self, d, m, h, min) == is_none(self.repeat)

between_rejected(self, start, end) == ~is_none(self.range)

\* ------------------------------------------------------------------------
\* Convenience compositions (src/lib.rs)
monthly(self) == every(self, FrequencyPattern_Frequency("Monthly"))

weekly(self) == every(self, FrequencyPattern_Frequency("Weekly"))

daily(self) == every(self, FrequencyPattern_Frequency("Daily"))

hourly(self) == every(self, FrequencyPattern_Frequency("Hourly"))

every_nth_day(self, n, d) == every(self, FrequencyPattern_ByDay(Some(n), d))

every_on_day(self, d) == every(self, FrequencyPattern_ByDay(None, d))

except_on_date(self, n) == except(self, Except_N(n))

except_on_nthday(self, n, d) == except(self, Except_NDay(n, d))

except_on_day(self, d) == except(self, Except_Day(d))

except_on_month(self, m) == except(self, Except_MONTH(m))

\* Month::from_u8 is called by src/lib.rs but defined nowhere in src/: the
\* integer form accepts 1..12 and yields the named month.
Month_from_u8(n) == IF n \in 1..Len(Month) THEN Some(Month[n]) ELSE None

except_on_month_in_number(self, n) ==
    IF is_some(Month_from_u8(n))
    THEN except(self, Except_MONTH(unwrap(Month_from_u8(n))))
    ELSE self

\* The integer form of month, which date and date_with_time call with a u8
\* and src/ does not define: it accepts 1..12 and then behaves as the enum
\* form.
month_u8(self, n) ==
    IF is_some(Month_from_u8(n))
    THEN month(self, unwrap(Month_from_u8(n)))
    ELSE self

\* at made atomic: a bad minute rejects the hour with it.
at_atomic(self, h, mi) ==
    IF h < 24 /\ mi < 60 THEN minute(hour(self, h), mi) ELSE self

at(self, h, mi) == minute(hour(self, h), mi)

date(self, m, d) == day(month_u8(self, m), d)

date_with_time(self, m, d, h, mi) ==
    minute(hour(day(month_u8(self, m), d), h), mi)

day_with_time(self, d, h, mi) == minute(hour(day(self, d), h), mi)

on_day(self, d) == day(self, d)

repeat_until_date(self, n, d, m) ==
    until(repeat(self, n), Some(d), Some(m), None, None)

until_date(self, d, m) ==
    IF is_some(Month_from_u8(m))
    THEN until(self, Some(d), Some(unwrap(Month_from_u8(m))), None, None)
    ELSE self

\* ------------------------------------------------------------------------
\* ScheduleBuilder<DaySet, MonthSet, HourSet, MinuteSet> (src/builder.rs).
\* The four PhantomData markers are the type parameters; a method exists in
\* a state exactly when the state's type matches the header of the impl
\* block that defines the method.
ScheduleBuilder(m, d, h, mi, mS, dS, hS, miS) ==
    [month |-> m, day |-> d, hour |-> h, minute |-> mi,
     mMonth |-> mS, mDay |-> dS, mHour |-> hS, mMinute |-> miS]

ScheduleBuilder_new ==
    ScheduleBuilder(None, None, None, None, "No", "No", "No", "No")

\* impl ScheduleBuilder<No, No, No, No>
impl_new_day(b) ==
    b.mDay = "No" /\ b.mMonth = "No" /\ b.mHour = "No" /\ b.mMinute = "No"

\* hour generic over the hour marker as well: callable again after hour.
impl_hour_any(b) == b.mDay = "Yes" /\ b.mMinute = "No"

\* impl<MonthSet> ScheduleBuilder<Yes, MonthSet, No, No>
impl_hour(b) == b.mDay = "Yes" /\ b.mHour = "No" /\ b.mMinute = "No"

\* impl<MonthSet> ScheduleBuilder<Yes, MonthSet, Yes, No>
impl_minute(b) == b.mDay = "Yes" /\ b.mHour = "Yes" /\ b.mMinute = "No"

\* month generic over the minute marker as well: callable after minute.
impl_month_any(b) == b.mDay = "Yes" /\ b.mMonth = "No"

\* impl<HourSet> ScheduleBuilder<Yes, No, HourSet, No>
impl_month(b) == b.mDay = "Yes" /\ b.mMonth = "No" /\ b.mMinute = "No"

\* build generic over the hour marker, as month is: available after hour
\* and before minute.
impl_build_day_any_hour(b) ==
    b.mDay = "Yes" /\ b.mMonth = "No" /\ b.mMinute = "No"

\* impl ScheduleBuilder<Yes, No, No, No>
impl_build_day(b) ==
    b.mDay = "Yes" /\ b.mMonth = "No" /\ b.mHour = "No" /\ b.mMinute = "No"

\* impl<MonthSet> ScheduleBuilder<Yes, MonthSet, Yes, Yes>
impl_build_time(b) == b.mDay = "Yes" /\ b.mHour = "Yes" /\ b.mMinute = "Yes"

\* impl ScheduleBuilder<Yes, Yes, No, No>
impl_build_date(b) ==
    b.mDay = "Yes" /\ b.mMonth = "Yes" /\ b.mHour = "No" /\ b.mMinute = "No"

ScheduleBuilder_day(self, d) ==
    ScheduleBuilder(self.month, Some(d), self.hour, self.minute,
                    "No", "Yes", "No", "No")

ScheduleBuilder_hour(self, h) ==
    ScheduleBuilder(self.month, self.day, Some(h), self.minute,
                    self.mMonth, "Yes", "Yes", "No")

ScheduleBuilder_minute(self, mi) ==
    ScheduleBuilder(self.month, self.day, self.hour, Some(mi),
                    self.mMonth, "Yes", "Yes", "Yes")

\* month that rebuilds the builder as if no hour could have been stored yet.
ScheduleBuilder_month_drops_hour(self, m) ==
    ScheduleBuilder(Some(m), self.day, None, self.minute,
                    "Yes", "Yes", self.mHour, "No")

ScheduleBuilder_month(self, m) ==
    ScheduleBuilder(Some(m), self.day, self.hour, self.minute,
                    "Yes", "Yes", self.mHour, "No")

build_day(self) == day(Schedule_new, unwrap(self.day))

build_time(self) ==
    LET s == minute(hour(day(Schedule_new, unwrap(self.day)),
                         unwrap(self.hour)),
                    unwrap(self.minute))
    IN  IF is_some(self.month) THEN month(s, unwrap(self.month)) ELSE s

build_date(self) ==
    month(day(Schedule_new, unwrap(self.day)), unwrap(self.month))

\* ------------------------------------------------------------------------
\* Arguments the callers pass.  The u8 parameters are sampled on both sides
\* of every comparison the setters make; MaxDayArg, MaxHourArg and
\* MaxMinuteArg are the largest day, hour and minute a caller passes.
MaxDayArg == 32
MaxHourArg == 24
MaxMinuteArg == 60

YearArgs == {2025, 2026}
DayArgs == {0, 1, 31, MaxDayArg}
AllDayArgs == 0..MaxDayArg
MonthArgs == {"APR", "DEC"}
HourArgs == {8, 23, MaxHourArg}
MinuteArgs == {15, 59, MaxMinuteArg}
EveryArgs == {FrequencyPattern_ByDay(Some(3), "SAT")}
ExceptArgs == {Except_N(3)}
RepeatArgs == {5}
UntilArgs == {<<None, None, None, None>>,
              <<Some(3), Some("MAR"), Some(10), Some(30)>>,
              <<Some(50), Some("FEB"), Some(24), Some(60)>>}
BetweenArgs == {<<<<9, 0>>, <<10, 0>>>>}

OrdinalArgs == {2, 3}
AllEveryArgs ==
    {FrequencyPattern_Frequency(f) : f \in Frequency}
        \cup {FrequencyPattern_ByDay(n, d) :
                n \in {None} \cup {Some(k) : k \in OrdinalArgs}, d \in Days}
AllExceptArgs ==
    {Except_Day(d) : d \in Days}
        \cup {Except_N(n) : n \in OrdinalArgs}
        \cup {Except_NDay(n, d) : n \in OrdinalArgs, d \in Days}
        \cup {Except_MONTH(m) : m \in Months}
MonthNumberArgs == {0, 1, 12, 13}

AllRepeatArgs == {0, 5, 10, 20}
OptDayArgs == {None, Some(3), Some(50)}
OptMonthArgs == {None, Some("MAR"), Some("JAN")}
OptHourArgs == {None, Some(10)}
OptMinuteArgs == {None, Some(30)}
AllUntilArgs == OptDayArgs \X OptMonthArgs \X OptHourArgs \X OptMinuteArgs

TimeArgs == {<<9, 0>>, <<10, 0>>, <<11, 0>>, <<12, 0>>, <<25, 70>>}
AllBetweenArgs == TimeArgs \X TimeArgs

DateMonthArgs == {0, 1, 4, 9, 12, 13}
DateDayArgs == {20, 31, MaxDayArg}
DateHourArgs == {22, MaxHourArg}
DateMinuteArgs == {0, MaxMinuteArg}

AtHourArgs == {9, 22, MaxHourArg}
AtMinuteArgs == {30, MaxMinuteArg}
WithTimeDayArgs == {20, MaxDayArg}
UntilDayArgs == {3, 50}
UntilMonthArgs == {"MAR", "JAN"}
CountArgs == {5, 10}

BuilderDayArgs == {5, 20, 31, 50}
BuilderHourArgs == {22, MaxHourArg}
BuilderMinuteArgs == {0, MaxMinuteArg}

Call(op, args) == [op |-> op, args |-> args]

\* Whether the call c of one of the ten setters on self is rejected.
Rejected(self, c) ==
    CASE c.op = "year" -> year_rejected(self, c.args[1])
      [] c.op = "day" -> day_rejected(self, c.args[1])
      [] c.op = "month" -> month_rejected(self, c.args[1])
      [] c.op = "hour" -> hour_rejected(self, c.args[1])
      [] c.op = "minute" -> minute_rejected(self, c.args[1])
      [] c.op = "every" -> every_rejected(self, c.args[1])
      [] c.op = "except" -> except_rejected(self, c.args[1])
      [] c.op = "repeat" -> repeat_rejected(self, c.args[1])
      [] c.op = "until" ->
            until_rejected(self, c.args[1], c.args[2], c.args[3], c.args[4])
      [] c.op = "between" -> between_rejected(self, c.args[1], c.args[2])

\* The Schedule the call c of one of the ten setters returns on self.
Apply(self, c) ==
    CASE c.op = "year" -> year(self, c.args[1])
      [] c.op = "day" -> day(self, c.args[1])
      [] c.op = "month" -> month(self, c.args[1])
      [] c.op = "hour" -> hour(self, c.args[1])
      [] c.op = "minute" -> minute(self, c.args[1])
      [] c.op = "every" -> every(self, c.args[1])
      [] c.op = "except" -> except(self, c.args[1])
      [] c.op = "repeat" -> repeat(self, c.args[1])
      [] c.op = "until" ->
            until(self, c.args[1], c.args[2], c.args[3], c.args[4])
      [] c.op = "between" -> between(self, c.args[1], c.args[2])

\* The calls a chain of Spec is made of.
Calls ==
    {Call("year", <<y>>) : y \in YearArgs}
        \cup {Call("day", <<d>>) : d \in DayArgs}
        \cup {Call("month", <<m>>) : m \in MonthArgs}
        \cup {Call("hour", <<h>>) : h \in HourArgs}
        \cup {Call("minute", <<m>>) : m \in MinuteArgs}
        \cup {Call("every", <<f>>) : f \in EveryArgs}
        \cup {Call("except", <<e>>) : e \in ExceptArgs}
        \cup {Call("repeat", <<n>>) : n \in RepeatArgs}
        \cup {Call("until", a) : a \in UntilArgs}
        \cup {Call("between", a) : a \in BetweenArgs}

\* The calls of the chains that order independence is examined on: for every
\* setter one call it accepts and, where it can reject, one it rejects.
OrderCalls ==
    {c \in Calls :
        \/ c.op \in {"every", "except", "repeat", "between"}
        \/ c.op = "year" /\ c.args[1] = 2025
        \/ c.op = "day" /\ c.args[1] >= 31
        \/ c.op = "month"
        \/ c.op = "hour" /\ c.args[1] # 23
        \/ c.op = "minute" /\ c.args[1] # 59
        \/ c.op = "until" /\ c.args[1] \in {None, Some(3)}}

\* ------------------------------------------------------------------------
\* One action per call of a Schedule method on the schedule under
\* construction.  `last` records the call and `firstRepeat` the argument of
\* the first repeat call.
CallYear ==
    \E y \in YearArgs :
        /\ sched' = year(sched, y)
        /\ last' = Call("year", <<y>>)
        /\ UNCHANGED <<firstRepeat, builder, called, built>>

CallDay(Args) ==
    \E d \in Args :
        /\ sched' = day(sched, d)
        /\ last' = Call("day", <<d>>)
        /\ UNCHANGED <<firstRepeat, builder, called, built>>

CallMonth(Args) ==
    \E m \in Args :
        /\ sched' = month(sched, m)
        /\ last' = Call("month", <<m>>)
        /\ UNCHANGED <<firstRepeat, builder, called, built>>

CallHour ==
    \E h \in HourArgs :
        /\ sched' = hour(sched, h)
        /\ last' = Call("hour", <<h>>)
        /\ UNCHANGED <<firstRepeat, builder, called, built>>

CallMinute ==
    \E m \in MinuteArgs :
        /\ sched' = minute(sched, m)
        /\ last' = Call("minute", <<m>>)
        /\ UNCHANGED <<firstRepeat, builder, called, built>>

CallEvery(Args) ==
    \E f \in Args :
        /\ sched' = every(sched, f)
        /\ last' = Call("every", <<f>>)
        /\ UNCHANGED <<firstRepeat, builder, called, built>>

CallExcept(Args) ==
    \E e \in Args :
        /\ sched' = except(sched, e)
        /\ last' = Call("except", <<e>>)
        /\ UNCHANGED <<firstRepeat, builder, called, built>>

CallRepeat(Args) ==
    \E n \in Args :
        /\ sched' = repeat(sched, n)
        /\ last' = Call("repeat", <<n>>)
        /\ firstRepeat' = IF is_none(firstRepeat) THEN Some(n) ELSE firstRepeat
        /\ UNCHANGED <<builder, called, built>>

CallUntil(Args) ==
    \E a \in Args :
        /\ sched' = until(sched, a[1], a[2], a[3], a[4])
        /\ last' = Call("until", a)
        /\ UNCHANGED <<firstRepeat, builder, called, built>>

CallBetween(Args) ==
    \E a \in Args :
        /\ sched' = between(sched, a[1], a[2])
        /\ last' = Call("between", a)
        /\ UNCHANGED <<firstRepeat, builder, called, built>>

\* A call of any one of the ten setters, drawn from Cs.
CallSetter(Cs) ==
    \E c \in Cs :
        /\ sched' = Apply(sched, c)
        /\ last' = c
        /\ firstRepeat' = IF c.op = "repeat" /\ is_none(firstRepeat)
                          THEN Some(c.args[1])
                          ELSE firstRepeat
        /\ UNCHANGED <<builder, called, built>>

\* The frequency and exception conveniences of src/lib.rs.
CallNamedFrequency ==
    \E op \in {"monthly", "weekly", "daily", "hourly"} :
        /\ sched' = CASE op = "monthly" -> monthly(sched)
                      [] op = "weekly" -> weekly(sched)
                      [] op = "daily" -> daily(sched)
                      [] op = "hourly" -> hourly(sched)
        /\ last' = Call(op, <<>>)
        /\ UNCHANGED <<firstRepeat, builder, called, built>>

CallEveryNthDay ==
    \E n \in OrdinalArgs, d \in Days :
        /\ sched' = every_nth_day(sched, n, d)
        /\ last' = Call("every_nth_day", <<n, d>>)
        /\ UNCHANGED <<firstRepeat, builder, called, built>>

CallEveryOnDay ==
    \E d \in Days :
        /\ sched' = every_on_day(sched, d)
        /\ last' = Call("every_on_day", <<d>>)
        /\ UNCHANGED <<firstRepeat, builder, called, built>>

CallExceptOnDate ==
    \E n \in OrdinalArgs :
        /\ sched' = except_on_date(sched, n)
        /\ last' = Call("except_on_date", <<n>>)
        /\ UNCHANGED <<firstRepeat, builder, called, built>>

CallExceptOnNthday ==
    \E n \in OrdinalArgs, d \in Days :
        /\ sched' = except_on_nthday(sched, n, d)
        /\ last' = Call("except_on_nthday", <<n, d>>)
        /\ UNCHANGED <<firstRepeat, builder, called, built>>

CallExceptOnDay ==
    \E d \in Days :
        /\ sched' = except_on_day(sched, d)
        /\ last' = Call("except_on_day", <<d>>)
        /\ UNCHANGED <<firstRepeat, builder, called, built>>

CallExceptOnMonth ==
    \E m \in Months :
        /\ sched' = except_on_month(sched, m)
        /\ last' = Call("except_on_month", <<m>>)
        /\ UNCHANGED <<firstRepeat, builder, called, built>>

CallExceptOnMonthInNumber ==
    \E n \in MonthNumberArgs :
        /\ sched' = except_on_month_in_number(sched, n)
        /\ last' = Call("except_on_month_in_number", <<n>>)
        /\ UNCHANGED <<firstRepeat, builder, called, built>>

\* The date conveniences of src/lib.rs.
CallDate ==
    \E m \in DateMonthArgs, d \in DateDayArgs :
        /\ sched' = date(sched, m, d)
        /\ last' = Call("date", <<m, d>>)
        /\ UNCHANGED <<firstRepeat, builder, called, built>>

CallDateWithTime ==
    \E m \in DateMonthArgs, d \in DateDayArgs,
       h \in DateHourArgs, mi \in DateMinuteArgs :
        /\ sched' = date_with_time(sched, m, d, h, mi)
        /\ last' = Call("date_with_time", <<m, d, h, mi>>)
        /\ UNCHANGED <<firstRepeat, builder, called, built>>

\* The time and repetition conveniences of src/lib.rs.
CallAt ==
    \E h \in AtHourArgs, mi \in AtMinuteArgs :
        /\ sched' = at(sched, h, mi)
        /\ last' = Call("at", <<h, mi>>)
        /\ UNCHANGED <<firstRepeat, builder, called, built>>

CallDayWithTime ==
    \E d \in WithTimeDayArgs, h \in AtHourArgs, mi \in AtMinuteArgs :
        /\ sched' = day_with_time(sched, d, h, mi)
        /\ last' = Call("day_with_time", <<d, h, mi>>)
        /\ UNCHANGED <<firstRepeat, builder, called, built>>

CallOnDay ==
    \E d \in WithTimeDayArgs :
        /\ sched' = on_day(sched, d)
        /\ last' = Call("on_day", <<d>>)
        /\ UNCHANGED <<firstRepeat, builder, called, built>>

CallRepeatUntilDate ==
    \E n \in CountArgs, d \in UntilDayArgs, m \in UntilMonthArgs :
        /\ sched' = repeat_until_date(sched, n, d, m)
        /\ last' = Call("repeat_until_date", <<n, d, m>>)
        /\ firstRepeat' = IF is_none(firstRepeat) THEN Some(n) ELSE firstRepeat
        /\ UNCHANGED <<builder, called, built>>

CallUntilDate ==
    \E d \in UntilDayArgs, m \in MonthNumberArgs :
        /\ sched' = until_date(sched, d, m)
        /\ last' = Call("until_date", <<d, m>>)
        /\ UNCHANGED <<firstRepeat, builder, called, built>>

\* ------------------------------------------------------------------------
\* One action per call of a ScheduleBuilder method.  Every method takes the
\* builder by value; build() consumes it and leaves its Schedule in `built`.
\* `called` lists the methods called so far.
BuilderDay ==
    /\ is_some(builder) /\ impl_new_day(unwrap(builder))
    /\ \E d \in BuilderDayArgs :
        /\ builder' = Some(ScheduleBuilder_day(unwrap(builder), d))
        /\ last' = Call("builder.day", <<d>>)
    /\ called' = Append(called, "day")
    /\ UNCHANGED <<sched, firstRepeat, built>>

BuilderMonth ==
    /\ is_some(builder) /\ impl_month(unwrap(builder))
    /\ \E m \in Months :
        /\ builder' = Some(ScheduleBuilder_month(unwrap(builder), m))
        /\ last' = Call("builder.month", <<m>>)
    /\ called' = Append(called, "month")
    /\ UNCHANGED <<sched, firstRepeat, built>>

BuilderHour ==
    /\ is_some(builder) /\ impl_hour(unwrap(builder))
    /\ \E h \in BuilderHourArgs :
        /\ builder' = Some(ScheduleBuilder_hour(unwrap(builder), h))
        /\ last' = Call("builder.hour", <<h>>)
    /\ called' = Append(called, "hour")
    /\ UNCHANGED <<sched, firstRepeat, built>>

BuilderMinute ==
    /\ is_some(builder) /\ impl_minute(unwrap(builder))
    /\ \E mi \in BuilderMinuteArgs :
        /\ builder' = Some(ScheduleBuilder_minute(unwrap(builder), mi))
        /\ last' = Call("builder.minute", <<mi>>)
    /\ called' = Append(called, "minute")
    /\ UNCHANGED <<sched, firstRepeat, built>>

BuilderBuild ==
    /\ is_some(builder)
    /\ \/ impl_build_day(unwrap(builder))
          /\ built' = Some(build_day(unwrap(builder)))
       \/ impl_build_time(unwrap(builder))
          /\ built' = Some(build_time(unwrap(builder)))
       \/ impl_build_date(unwrap(builder))
          /\ built' = Some(build_date(unwrap(builder)))
    /\ builder' = None
    /\ last' = Call("builder.build", <<>>)
    /\ called' = Append(called, "build")
    /\ UNCHANGED <<sched, firstRepeat>>

\* ------------------------------------------------------------------------
\* Schedule::new(): an empty schedule, no builder.
Init ==
    /\ sched = Schedule_new
    /\ last = Call("new", <<>>)
    /\ firstRepeat = None
    /\ builder = None
    /\ called = <<>>
    /\ built = None

\* ScheduleBuilder::new(): an empty builder, nothing built yet.
InitBuilder ==
    /\ sched = Schedule_new
    /\ last = Call("builder.new", <<>>)
    /\ firstRepeat = None
    /\ builder = Some(ScheduleBuilder_new)
    /\ called = <<>>
    /\ built = None

\* Any chain of the ten setters of src/types.rs.
Next ==
    \/ CallYear
    \/ CallDay(DayArgs)
    \/ CallMonth(MonthArgs)
    \/ CallHour
    \/ CallMinute
    \/ CallEvery(EveryArgs)
    \/ CallExcept(ExceptArgs)
    \/ CallRepeat(RepeatArgs)
    \/ CallUntil(UntilArgs)
    \/ CallBetween(BetweenArgs)

Spec == Init /\ [][Next]_vars

\* Chains of day and month over every day number and every month.
NextCalendar ==
    \/ CallDay(AllDayArgs)
    \/ CallMonth(Months)

SpecCalendar == Init /\ [][NextCalendar]_vars

\* Chains of every, except and their conveniences.
NextRecurring ==
    \/ CallEvery(AllEveryArgs)
    \/ CallExcept(AllExceptArgs)
    \/ CallNamedFrequency
    \/ CallEveryNthDay
    \/ CallEveryOnDay
    \/ CallExceptOnDate
    \/ CallExceptOnNthday
    \/ CallExceptOnDay
    \/ CallExceptOnMonth
    \/ CallExceptOnMonthInNumber

SpecRecurring == Init /\ [][NextRecurring]_vars

\* Chains of repeat and until.
NextRepeat ==
    \/ CallRepeat(AllRepeatArgs)
    \/ CallUntil(AllUntilArgs)

SpecRepeat == Init /\ [][NextRepeat]_vars

\* Chains of between.
NextBetween == CallBetween(AllBetweenArgs)

SpecBetween == Init /\ [][NextBetween]_vars

\* Chains of date and date_with_time.
NextDate ==
    \/ CallDate
    \/ CallDateWithTime

SpecDate == Init /\ [][NextDate]_vars

\* Chains of the ten setters over OrderCalls.
NextOrder == CallSetter(OrderCalls)

SpecOrder == Init /\ [][NextOrder]_vars

\* Chains of the time and repetition conveniences.
NextConvenience ==
    \/ CallAt
    \/ CallDayWithTime
    \/ CallOnDay
    \/ CallRepeatUntilDate
    \/ CallUntilDate

SpecConvenience == Init /\ [][NextConvenience]_vars

\* Call sequences of the type-state builder.
NextBuilder ==
    \/ BuilderDay
    \/ BuilderMonth
    \/ BuilderHour
    \/ BuilderMinute
    \/ BuilderBuild

SpecBuilder == InitBuilder /\ [][NextBuilder]_vars

\* ------------------------------------------------------------------------
\* Properties

\* The month number of the calendar: January = 1 ... December = 12.
MonthNumber(m) == CHOOSE i \in 1..Len(Month) : Month[i] = m

ScalarFields == {"year", "day", "month", "hour", "minute"}

\* C1: once year, day, month, hour or minute holds a value, no later call of
\* any of the ten setters overwrites or clears it.
C1_FirstWriteWins ==
    [][\A f \in ScalarFields : is_some(sched[f]) => sched'[f] = sched[f]]_vars

\* hour was set to 8 and a later valid hour(23) was ignored.
C1_Witness ==
    /\ last = Call("hour", <<23>>)
    /\ sched.hour = Some(8)

\* C2: day, if set, is in 1..31, hour in 0..23 and minute in 0..59; and a
\* day, hour or minute call with an out-of-range argument on an unset field
\* leaves the field unset.
C2_RangeValidity ==
    /\ [](/\ is_some(sched.day) => unwrap(sched.day) \in 1..31
          /\ is_some(sched.hour) => unwrap(sched.hour) \in 0..23
          /\ is_some(sched.minute) => unwrap(sched.minute) \in 0..59)
    /\ [][/\ (last'.op = "day" /\ last'.args[1] \notin 1..31
                 /\ is_none(sched.day)) => is_none(sched'.day)
          /\ (last'.op = "hour" /\ last'.args[1] \notin 0..23
                 /\ is_none(sched.hour)) => is_none(sched'.hour)
          /\ (last'.op = "minute" /\ last'.args[1] \notin 0..59
                 /\ is_none(sched.minute)) => is_none(sched'.minute)]_vars

\* day(0) was called on a schedule whose day is unset, beside a set hour and
\* minute.
C2_Witness ==
    /\ last = Call("day", <<0>>)
    /\ is_none(sched.day)
    /\ is_some(sched.hour)
    /\ is_some(sched.minute)

\* C3: whenever both day and month are set, the day is valid for the month
\* by the calendar check taken with month numbers 1..12; so month(APR) after
\* day(31) leaves month unset and day(31) after month(APR) leaves day unset.
C3_NoInvalidPair ==
    (is_some(sched.day) /\ is_some(sched.month))
        => is_valid_day_for_month(MonthNumber(unwrap(sched.month)),
                                  unwrap(sched.day))

\* C4: a setter never rejects a valid value for an unset field: day(d) with
\* d in 1..31 on an unset day, and month(m) on an unset month, populate the
\* field whenever the other field is unset or the pair is valid by the
\* calendar check taken with month numbers 1..12.
C4_ValidPopulated ==
    [][/\ (/\ last'.op = "day"
           /\ last'.args[1] \in 1..31
           /\ is_none(sched.day)
           /\ (is_none(sched.month)
                  \/ is_valid_day_for_month(MonthNumber(unwrap(sched.month)),
                                            last'.args[1])))
             => sched'.day = Some(last'.args[1])
       /\ (/\ last'.op = "month"
           /\ is_none(sched.month)
           /\ (is_none(sched.day)
                  \/ is_valid_day_for_month(MonthNumber(last'.args[1]),
                                            unwrap(sched.day))))
             => sched'.month = Some(last'.args[1])]_vars

\* C5: until on a schedule without repeat leaves repeat unset; on a schedule
\* with repeat it makes day, month, hr and minute of the record exactly its
\* four arguments and keeps total.
C5_UntilReplaces ==
    [][last'.op = "until" =>
          IF is_none(sched.repeat)
          THEN is_none(sched'.repeat)
          ELSE sched'.repeat =
                 Some([total |-> unwrap(sched.repeat).total,
                       day |-> last'.args[1], month |-> last'.args[2],
                       hr |-> last'.args[3], minute |-> last'.args[4]])]_vars

\* repeat(5) ... until(Some(3), Some(MAR), Some(10), Some(30)).
C5_Witness ==
    /\ last = Call("until", <<Some(3), Some("MAR"), Some(10), Some(30)>>)
    /\ sched.repeat = Some([total |-> 5, day |-> Some(3),
                            month |-> Some("MAR"), hr |-> Some(10),
                            minute |-> Some(30)])

\* C6: repeat is set exactly when some repeat call has occurred, and its
\* total is the argument of the first repeat call.
C6_RepeatOrigin ==
    /\ is_some(sched.repeat) <=> is_some(firstRepeat)
    /\ is_some(sched.repeat)
          => unwrap(sched.repeat).total = unwrap(firstRepeat)

\* A second repeat call with another count, after an until call has filled
\* the record.
C6_Witness ==
    /\ last.op = "repeat"
    /\ is_some(firstRepeat)
    /\ last.args[1] # unwrap(firstRepeat)
    /\ is_some(unwrap(sched.repeat).day)

\* C7: every(f) on a schedule without frequency stores exactly f and
\* except(e) on a schedule without exception stores exactly e; once set,
\* no later every or except call, direct or through a convenience, changes
\* the stored value.
C7_RecurringRoundTrip ==
    [][/\ (last'.op = "every" /\ is_none(sched.recurring.frequency))
             => sched'.recurring.frequency = Some(last'.args[1])
       /\ (last'.op = "except" /\ is_none(sched.recurring.except))
             => sched'.recurring.except = Some(last'.args[1])
       /\ is_some(sched.recurring.frequency)
             => sched'.recurring.frequency = sched.recurring.frequency
       /\ is_some(sched.recurring.except)
             => sched'.recurring.except = sched.recurring.except]_vars

\* every(ByDay((Some(3), SAT))) was stored and a later every(Daily) ignored.
C7_Witness ==
    /\ last = Call("every", <<FrequencyPattern_Frequency("Daily")>>)
    /\ sched.recurring.frequency = Some(FrequencyPattern_ByDay(Some(3), "SAT"))
    /\ is_some(sched.recurring.except)

\* C8: between on a schedule without range stores the two times as given,
\* whatever their order; once set, no later between call changes range.
C8_Between ==
    [][/\ (last'.op = "between" /\ is_none(sched.range))
             => sched'.range =
                  Some(<<[hour |-> last'.args[1][1], minute |-> last'.args[1][2]],
                         [hour |-> last'.args[2][1], minute |-> last'.args[2][2]]>>)
       /\ is_some(sched.range) => sched'.range = sched.range]_vars

\* between((10,0),(9,0)) was stored, start after end, and a later
\* between((11,0),(12,0)) ignored.
C8_Witness ==
    /\ last = Call("between", <<<<11, 0>>, <<12, 0>>>>)
    /\ sched.range = Some(<<[hour |-> 10, minute |-> 0],
                            [hour |-> 9, minute |-> 0]>>)

Markers(b) == <<b.mDay, b.mMonth, b.mHour, b.mMinute>>

Occurrences(seq, x) == Cardinality({i \in 1..Len(seq) : seq[i] = x})

InSeq(seq, x) == \E i \in 1..Len(seq) : seq[i] = x

\* C9: build() is accessible in exactly the states (day, month, hour,
\* minute) = (Set,NotSet,NotSet,NotSet), (Set,Set,NotSet,NotSet),
\* (Set,NotSet,Set,Set), (Set,Set,Set,Set); every call sequence ending in
\* build() has called day, and hour only together with minute.
C9_BuildAvailability ==
    /\ is_some(builder) =>
          ((ENABLED BuilderBuild) <=>
              Markers(unwrap(builder)) \in
                  {<<"Yes", "No", "No", "No">>, <<"Yes", "Yes", "No", "No">>,
                   <<"Yes", "No", "Yes", "Yes">>, <<"Yes", "Yes", "Yes", "Yes">>})
    /\ is_none(builder) => ~ENABLED BuilderBuild
    /\ last.op = "builder.build" =>
          /\ InSeq(called, "day")
          /\ InSeq(called, "hour") <=> InSeq(called, "minute")

\* build() was called after day, month, hour and minute.
C9_Witness ==
    /\ last.op = "builder.build"
    /\ InSeq(called, "month")
    /\ InSeq(called, "minute")
    /\ is_some(built)

\* C10: in the initial state day is the only callable operation; hour is
\* callable only after day and minute only after hour; a marker never goes
\* from Set back to NotSet; day, hour and minute are never called twice.
C10_ConstructionOrder ==
    /\ [](/\ (is_some(builder) /\ called = <<>>) =>
                /\ ENABLED BuilderDay
                /\ ~ENABLED BuilderMonth
                /\ ~ENABLED BuilderHour
                /\ ~ENABLED BuilderMinute
                /\ ~ENABLED BuilderBuild
          /\ (ENABLED BuilderHour) => InSeq(called, "day")
          /\ (ENABLED BuilderMinute) => InSeq(called, "hour")
          /\ \A i, j \in 1..Len(called) :
                (called[i] = "hour" /\ called[j] = "day") => j < i
          /\ \A i, j \in 1..Len(called) :
                (called[i] = "minute" /\ called[j] = "hour") => j < i
          /\ \A op \in {"day", "hour", "minute"} : Occurrences(called, op) <= 1)
    /\ [][(is_some(builder) /\ is_some(builder')) =>
             \A f \in {"mDay", "mMonth", "mHour", "mMinute"} :
                 unwrap(builder)[f] = "Yes" => unwrap(builder')[f] = "Yes"]_vars

\* day, hour and minute were called, in that order, and the builder is
\* still there.
C10_Witness ==
    /\ is_some(builder)
    /\ called = <<"day", "hour", "minute">>

\* C11: month is callable only in states whose hour marker is NotSet, the
\* states (Set, *, NotSet, NotSet); no call sequence applies month after
\* hour.
C11_MonthBeforeHour ==
    /\ (ENABLED BuilderMonth) =>
          /\ unwrap(builder).mDay = "Yes"
          /\ unwrap(builder).mHour = "No"
          /\ unwrap(builder).mMinute = "No"
    /\ \A i, j \in 1..Len(called) :
          (called[i] = "month" /\ called[j] = "hour") => i < j

\* C11, amended: month is callable exactly in the states (Set, NotSet, *,
\* NotSet), before or after hour; no call sequence applies month after
\* minute or a second time.
C11_MonthBeforeMinute ==
    /\ is_some(builder) =>
          ((ENABLED BuilderMonth) <=>
              Markers(unwrap(builder)) \in
                  {<<"Yes", "No", "No", "No">>, <<"Yes", "No", "Yes", "No">>})
    /\ is_none(builder) => ~ENABLED BuilderMonth
    /\ \A i, j \in 1..Len(called) :
          (called[i] = "month" /\ called[j] = "minute") => i < j
    /\ Occurrences(called, "month") <= 1

\* month was called after day and hour, before minute.
C11_Witness ==
    /\ is_some(builder)
    /\ called = <<"day", "hour", "month">>
    /\ Markers(unwrap(builder)) = <<"Yes", "Yes", "Yes", "No">>

\* The schedule that holds exactly the given day, month, hour and minute.
ScheduleOf(d, m, h, mi) ==
    [Schedule_new EXCEPT !.day = d, !.month = m, !.hour = h, !.minute = mi]

\* C12: for a day d in 1..31, a month m for which d is valid by the calendar
\* (month numbers 1..12), an hour in 0..23 and a minute in 0..59,
\* day(d).month(m).hour(h).minute(mi).build() yields exactly day = d,
\* month = m, hour = h, minute = mi; day(d).month(m).build() exactly day = d
\* and month = m; day(d).build() exactly day = d.
C12_BuilderResult ==
    [][last'.op = "builder.build" =>
          LET b == unwrap(builder)
          IN  (/\ unwrap(b.day) \in 1..31
               /\ is_some(b.month) =>
                     is_valid_day_for_month(MonthNumber(unwrap(b.month)),
                                            unwrap(b.day))
               /\ is_some(b.hour) => unwrap(b.hour) \in 0..23
               /\ is_some(b.minute) => unwrap(b.minute) \in 0..59)
                 => built' = Some(ScheduleOf(b.day, b.month, b.hour, b.minute))]_vars

\* C13: build() returns the Schedule obtained from Schedule::new() by
\* Schedule's own day, month (if supplied), hour and minute setters on the
\* raw values the builder stored; so an out-of-range day, hour or minute is
\* absent from the built Schedule, and a day/month pair that is invalid by
\* the calendar (month numbers 1..12) never appears together in it.
C13_BuilderDelegates ==
    [][last'.op = "builder.build" =>
          LET b == unwrap(builder)
              s1 == day(Schedule_new, unwrap(b.day))
              s2 == IF is_some(b.month) THEN month(s1, unwrap(b.month)) ELSE s1
              s3 == IF is_some(b.hour) THEN hour(s2, unwrap(b.hour)) ELSE s2
              s4 == IF is_some(b.minute) THEN minute(s3, unwrap(b.minute)) ELSE s3
              r == unwrap(built')
          IN  /\ r = s4
              /\ unwrap(b.day) \notin 1..31 => is_none(r.day)
              /\ (is_some(b.hour) /\ unwrap(b.hour) >= 24) => is_none(r.hour)
              /\ (is_some(b.minute) /\ unwrap(b.minute) >= 60) => is_none(r.minute)
              /\ (is_some(r.day) /\ is_some(r.month)) =>
                    is_valid_day_for_month(MonthNumber(unwrap(r.month)),
                                           unwrap(r.day))]_vars

\* The field a setter writes.
Target(op, s) ==
    CASE op = "year" -> s.year
      [] op = "day" -> s.day
      [] op = "month" -> s.month
      [] op = "hour" -> s.hour
      [] op = "minute" -> s.minute
      [] op = "every" -> s.recurring.frequency
      [] op = "except" -> s.recurring.except
      [] op \in {"repeat", "until"} -> s.repeat
      [] op = "between" -> s.range

C15_DateEntryPoints ==
    [][(sched = Schedule_new /\ last'.op \in {"date", "date_with_time"}) =>
          LET m == last'.args[1]
              d == last'.args[2]
          IN  /\ (/\ m \in 1..12
                  /\ d \in 1..31
                  /\ is_valid_day_for_month(m, d)
                  /\ last'.op = "date")
                    => sched' = ScheduleOf(Some(d), Some(Month[m]), None, None)
              /\ (/\ m \in 1..12
                  /\ d \in 1..31
                  /\ is_valid_day_for_month(m, d)
                  /\ last'.op = "date_with_time"
                  /\ last'.args[3] \in 0..23
                  /\ last'.args[4] \in 0..59)
                    => sched' = ScheduleOf(Some(d), Some(Month[m]),
                                           Some(last'.args[3]),
                                           Some(last'.args[4]))
              /\ m \notin 1..12 => is_none(sched'.month)]_vars

FieldNames == {"year", "day", "month", "hour", "minute", "frequency",
               "except", "repeat", "range"}

Field(s, f) ==
    CASE f = "frequency" -> s.recurring.frequency
      [] f = "except" -> s.recurring.except
      [] OTHER -> s[f]

TargetName(op) ==
    CASE op = "every" -> "frequency"
      [] op = "until" -> "repeat"
      [] op = "between" -> "range"
      [] OTHER -> op

\* C16: every setter changes at most its own target field: year only year,
\* day only day, month only month, hour only hour, minute only minute, every
\* only frequency, except only the exception, between only range, repeat and
\* until only repeat.  until stores its four arguments as given, in range or
\* not, whatever the top-level day, month, hour and minute are.
C16_Frame ==
    [][/\ \A f \in FieldNames \ {TargetName(last'.op)} :
             Field(sched', f) = Field(sched, f)
       /\ (last'.op = "until" /\ is_some(sched.repeat)) =>
             /\ unwrap(sched'.repeat).day = last'.args[1]
             /\ unwrap(sched'.repeat).month = last'.args[2]
             /\ unwrap(sched'.repeat).hr = last'.args[3]
             /\ unwrap(sched'.repeat).minute = last'.args[4]]_vars

\* until(Some(50), Some(FEB), Some(24), Some(60)) was stored as given beside
\* a top-level day 1, month APR, hour 8 and minute 15.
C16_Witness ==
    /\ last = Call("until", <<Some(50), Some("FEB"), Some(24), Some(60)>>)
    /\ sched.repeat = Some([total |-> 5, day |-> Some(50),
                            month |-> Some("FEB"), hr |-> Some(24),
                            minute |-> Some(60)])
    /\ sched.day = Some(1)
    /\ sched.month = Some("APR")
    /\ sched.hour = Some(8)
    /\ sched.minute = Some(15)

\* Pairs of calls that target different fields, day/month pairs excepted.
IndependentPairs ==
    {p \in Calls \X Calls :
        /\ TargetName(p[1].op) # TargetName(p[2].op)
        /\ {p[1].op, p[2].op} # {"day", "month"}}

DayMonthPairs ==
    {p \in Calls \X Calls : p[1].op = "day" /\ p[2].op = "month"}

\* C17: on every reachable Schedule, two calls that target different fields
\* (other than a day with a month, or repeat with until) give the same
\* Schedule in either order; day(d) and month(m) give the same Schedule in
\* either order when the cross-check accepts the pair, and otherwise differ
\* only in which of day and month is left unset.
C17_OrderIndependence ==
    /\ \A p \in IndependentPairs :
          Apply(Apply(sched, p[1]), p[2]) = Apply(Apply(sched, p[2]), p[1])
    /\ \A p \in DayMonthPairs :
          LET d == p[1].args[1]
              m == p[2].args[1]
              dm == Apply(Apply(sched, p[1]), p[2])
              md == Apply(Apply(sched, p[2]), p[1])
          IN  /\ is_valid_day_for_month(MonthAsU8(m), d) => dm = md
              /\ \A f \in FieldNames \ {"day", "month"} :
                    Field(dm, f) = Field(md, f)
              /\ dm # md =>
                    /\ dm.day = Some(d) /\ is_none(dm.month)
                    /\ md.month = Some(m) /\ is_none(md.day)

\* A Schedule with day and month unset, on which day(31) and month(DEC)
\* reject each other, reached by a chain of other setters.
C17_Witness ==
    /\ is_none(sched.day)
    /\ is_none(sched.month)
    /\ ~is_valid_day_for_month(MonthAsU8("DEC"), 31)
    /\ Apply(Apply(sched, Call("day", <<31>>)), Call("month", <<"DEC">>))
          # Apply(Apply(sched, Call("month", <<"DEC">>)), Call("day", <<31>>))
    /\ is_some(sched.hour)
    /\ is_some(sched.repeat)

\* C18: at(h, mi) is hour(h) then minute(mi), day_with_time(d, h, mi) is
\* day(d) then hour(h) then minute(mi), each component accepted or rejected
\* on its own (at(9, 60) sets hour 9 and leaves minute unset);
\* repeat_until_date(n, d, m) is repeat(n) then until(Some(d), Some(m),
\* None, None): total is n, or the existing total when repeat was set, and
\* the until fields become day d, month m, hr None, minute None.
C18_Compositions ==
    [][/\ last'.op = "at" =>
             sched' = [sched EXCEPT
                          !.hour = hour(sched, last'.args[1]).hour,
                          !.minute = minute(sched, last'.args[2]).minute]
       /\ last' = Call("at", <<9, MaxMinuteArg>>) =>
             /\ is_none(sched.hour) => sched'.hour = Some(9)
             /\ is_none(sched.minute) => is_none(sched'.minute)
       /\ last'.op = "day_with_time" =>
             sched' = [sched EXCEPT
                          !.day = day(sched, last'.args[1]).day,
                          !.hour = hour(sched, last'.args[2]).hour,
                          !.minute = minute(sched, last'.args[3]).minute]
       /\ last'.op = "repeat_until_date" =>
             sched' = [sched EXCEPT
                          !.repeat =
                              Some([total |-> IF is_some(sched.repeat)
                                              THEN unwrap(sched.repeat).total
                                              ELSE last'.args[1],
                                    day |-> Some(last'.args[2]),
                                    month |-> Some(last'.args[3]),
                                    hr |-> None,
                                    minute |-> None])]]_vars

\* at(9, 60) set hour 9 and left minute unset, on a Schedule whose repeat
\* was set by repeat_until_date.
C18_Witness ==
    /\ last = Call("at", <<9, MaxMinuteArg>>)
    /\ sched.hour = Some(9)
    /\ is_none(sched.minute)
    /\ is_some(sched.repeat)

\* C19: in every reachable builder state the value of day, month, hour and
\* minute is present exactly when its marker is Set; so wherever build() is
\* accessible the values it unwraps (day; day and month; day, hour and
\* minute) are present, and build() returns a Schedule.
C19_MarkerValueAgreement ==
    /\ is_some(builder) =>
          LET b == unwrap(builder)
          IN  /\ is_some(b.day) <=> b.mDay = "Yes"
              /\ is_some(b.month) <=> b.mMonth = "Yes"
              /\ is_some(b.hour) <=> b.mHour = "Yes"
              /\ is_some(b.minute) <=> b.mMinute = "Yes"
              /\ impl_build_day(b) => is_some(b.day)
              /\ impl_build_date(b) => (is_some(b.day) /\ is_some(b.month))
              /\ impl_build_time(b) =>
                    (is_some(b.day) /\ is_some(b.hour) /\ is_some(b.minute))
    /\ last.op = "builder.build" => is_some(built)

\* month was called after hour: both values are stored, minute is not, and
\* build() is not accessible.
C19_Witness ==
    /\ is_some(builder)
    /\ Markers(unwrap(builder)) = <<"Yes", "Yes", "Yes", "No">>
    /\ is_some(unwrap(builder).hour)
    /\ is_some(unwrap(builder).month)
    /\ is_none(unwrap(builder).minute)
    /\ ~ENABLED BuilderBuild

====
